---- MODULE Spec2Model ----
(***************************************************************************)
(* Model of the GitHub action rubyforgood/remove-label-from-cards          *)
(* (src/index.js): configuration validation, column resolution, card       *)
(* pagination, the per-card label read of main, and the throttled batch    *)
(* dispatcher labelCards.                                                  *)
(*                                                                         *)
(* JavaScript values are records tagged with their type in field t.        *)
(* Strings are sequences of one-character strings, so that toLowerCase,    *)
(* parseInt and the issue-number pattern are computed, not assumed.        *)
(***************************************************************************)
EXTENDS Integers, Sequences, FiniteSets, TLC

VARIABLES
  config,             \* columns_labels: the raw action input (index.js:3)
  world,              \* the remote column's content: k issue cards, m notes
  pc,                 \* position of main between its awaits
  validColumnsLabels, \* main: result of validateColumnsLabels
  dirIdx,             \* main: index of the for-of loop over the directives
  columnId,           \* main: let columnId
  project,            \* main: let project
  gcColumnId,         \* getColumnCardIssues: its parameter columnId, coerced
  cardIssues,         \* getColumnCardIssues: let cardIssues
  page,               \* getColumnCardIssues: let page
  cards,              \* main: let cards
  cardIdx,            \* main: index of the for-of loop over the cards
  exitCode,           \* process exit code; "running" until the process ends
  fatal,              \* the error main's promise rejected with, or "none"
  requests,           \* every remote request issued, in order of issue
  pending,            \* indices into requests still awaiting a response
  failed,             \* indices into requests that the remote failed
  calls,              \* invocations of getProject/getColumn/getColumnCardIssues
  logs,               \* console output, as tagged entries
  lc                  \* the state of one labelCards call (see LCInit)

vars == <<config, world, pc, validColumnsLabels, dirIdx, columnId, project, gcColumnId,
          cardIssues, page, cards, cardIdx, exitCode, fatal, requests, pending,
          failed, calls, logs, lc>>

mainVars == <<config, world, pc, validColumnsLabels, dirIdx, columnId, project,
              gcColumnId, cardIssues, page, cards, cardIdx, exitCode, fatal,
              requests, pending, failed, calls, logs>>

-----------------------------------------------------------------------------
(* Bounds of the model and constants of the program                        *)

MaxDirectives == 2      \* longest columns_labels array that is enumerated
MaxIssueCards == 3      \* most issue cards in the remote column
MaxFullPages == 2       \* the column holds up to this many full pages of notes
MaxBatch == 3           \* most cards handed to labelCards

MAX_CARDS_PER_PAGE == 100
THROTTLE_DELAY_MS == 1000

-----------------------------------------------------------------------------
(* JavaScript values                                                       *)

Str(s) == [t |-> "string", s |-> s, n |-> 0]
Num(n) == [t |-> "number", s |-> <<>>, n |-> n]
Null == [t |-> "null", s |-> <<>>, n |-> 0]
Undefined == [t |-> "undefined", s |-> <<>>, n |-> 0]
Arr(items) == [t |-> "array", items |-> items]
Obj(fields) == [t |-> "object", fields |-> fields]

\* JavaScript truthiness, as used by !x and by Array.prototype.filter
Truthy(v) ==
  CASE v.t = "string" -> Len(v.s) > 0
    [] v.t = "number" -> v.n # 0
    [] v.t \in {"null", "undefined"} -> FALSE
    [] OTHER -> TRUE

\* 'key' in obj
HasKey(o, k) == k \in DOMAIN o.fields

\* obj[key]
Get(o, k) == IF HasKey(o, k) THEN o.fields[k] ELSE Undefined

\* delete obj[key]
Delete(o, k) == Obj([x \in (DOMAIN o.fields) \ {k} |-> o.fields[x]])

\* obj[key] = v
Put(o, k, v) ==
  Obj([x \in (DOMAIN o.fields) \cup {k} |-> IF x = k THEN v ELSE o.fields[x]])

isObject(variable) == variable.t = "object"

isNonEmptyString(str) == str.t = "string" /\ Len(str.s) > 0

-----------------------------------------------------------------------------
(* Strings                                                                 *)

\* the characters that strings of the model are made of: printable ASCII
\* but the grave accent (which cannot be written in a string here),
\* the controls tab, line feed, carriage return, form feed and vertical tab,
\* U+00A0..U+00FF, U+1680 and U+FEFF. The character tables below are total
\* on this set and undefined outside it.
Alphabet ==
  {" ", "!", "\"", "#", "$", "%", "&", "'", "(", ")", "*", "+", ",", "-",
   ".", "/", "0", "1", "2", "3", "4", "5", "6", "7", "8", "9", ":", ";", "<",
   "=", ">", "?", "@", "A", "B", "C", "D", "E", "F", "G", "H", "I", "J", "K",
   "L", "M", "N", "O", "P", "Q", "R", "S", "T", "U", "V", "W", "X", "Y", "Z",
   "[", "\\", "]", "^", "_", "a", "b", "c", "d", "e", "f", "g", "h",
   "i", "j", "k", "l", "m", "n", "o", "p", "q", "r", "s", "t", "u", "v", "w",
   "x", "y", "z", "{", "|", "}", "~"}
  \cup {"\t", "\n", "\r", "\f", ""}
  \cup {" ", "¡", "¢", "£", "¤", "¥", "¦", "§", "¨", "©", "ª", "«", "¬", "­",
        "®", "¯", "°", "±", "²", "³", "´", "µ", "¶", "·", "¸", "¹", "º", "»",
        "¼", "½", "¾", "¿", "À", "Á", "Â", "Ã", "Ä", "Å", "Æ", "Ç", "È", "É",
        "Ê", "Ë", "Ì", "Í", "Î", "Ï", "Ð", "Ñ", "Ò", "Ó", "Ô", "Õ", "Ö", "×",
        "Ø", "Ù", "Ú", "Û", "Ü", "Ý", "Þ", "ß", "à", "á", "â", "ã", "ä", "å",
        "æ", "ç", "è", "é", "ê", "ë", "ì", "í", "î", "ï", "ð", "ñ", "ò", "ó",
        "ô", "õ", "ö", "÷", "ø", "ù", "ú", "û", "ü", "ý", "þ", "ÿ"}
  \cup {" ", "﻿"}

\* the characters of Alphabet that toLowerCase changes (A..Z, U+00C0..U+00D6,
\* U+00D8..U+00DE) and, position by position, what it changes them to
UpperChars == <<"A", "B", "C", "D", "E", "F", "G", "H", "I", "J", "K", "L", "M",
                "N", "O", "P", "Q", "R", "S", "T", "U", "V", "W", "X", "Y", "Z",
                "À", "Á", "Â", "Ã", "Ä", "Å", "Æ", "Ç", "È", "É", "Ê", "Ë", "Ì", "Í", "Î",
                "Ï", "Ð", "Ñ", "Ò", "Ó", "Ô", "Õ", "Ö", "Ø", "Ù", "Ú", "Û", "Ü", "Ý", "Þ">>
LowerChars == <<"a", "b", "c", "d", "e", "f", "g", "h", "i", "j", "k", "l", "m",
                "n", "o", "p", "q", "r", "s", "t", "u", "v", "w", "x", "y", "z",
                "à", "á", "â", "ã", "ä", "å", "æ", "ç", "è", "é", "ê", "ë", "ì", "í", "î",
                "ï", "ð", "ñ", "ò", "ó", "ô", "õ", "ö", "ø", "ù", "ú", "û", "ü", "ý", "þ">>
DigitChars == <<"0", "1", "2", "3", "4", "5", "6", "7", "8", "9">>

IndexIn(seq, c) ==
  IF \E i \in 1..Len(seq) : seq[i] = c
  THEN CHOOSE i \in 1..Len(seq) : seq[i] = c
  ELSE 0

\* the lower-case mapping of one character of Alphabet
LowerCaseOf ==
  [c \in Alphabet |->
     IF IndexIn(UpperChars, c) > 0 THEN LowerChars[IndexIn(UpperChars, c)]
     ELSE c]

\* String.prototype.toLowerCase
toLowerCase(s) == [i \in 1..Len(s) |-> LowerCaseOf[s[i]]]

\* value of c as a digit in the given radix, or -1
DigitValue(c, radix) ==
  LET d == IndexIn(DigitChars, c)
      lo == IndexIn(LowerChars, c)
      up == IndexIn(UpperChars, c)
      v == IF d > 0 THEN d - 1
           ELSE IF lo > 0 THEN 9 + lo
           ELSE IF up > 0 THEN 9 + up
           ELSE -1
  IN IF v >= 0 /\ v < radix THEN v ELSE -1

\* the white space and line terminators of Alphabet, which parseInt and
\* Number skip: space, tab, line feed, carriage return, form feed, vertical
\* tab, no-break space (U+00A0), ogham space mark (U+1680) and zero width
\* no-break space (U+FEFF)
WhiteSpaceChars == {" ", "\t", "\n", "\r", "\f", "", " ", " ", "﻿"}

\* whether a character of Alphabet is white space or a line terminator
IsWhiteSpace == [c \in Alphabet |-> c \in WhiteSpaceChars]

RECURSIVE SkipWhitespace(_)
SkipWhitespace(s) ==
  IF Len(s) > 0 /\ IsWhiteSpace[s[1]] THEN SkipWhitespace(Tail(s)) ELSE s

\* the longest prefix of digits of s: [any |-> a digit was read, n |-> value]
RECURSIVE ReadDigits(_, _, _, _)
ReadDigits(s, radix, acc, any) ==
  IF Len(s) > 0 /\ DigitValue(s[1], radix) >= 0
  THEN ReadDigits(Tail(s), radix, acc * radix + DigitValue(s[1], radix), TRUE)
  ELSE [any |-> any, n |-> acc]

\* parseInt(string) with no radix: [nan |-> BOOLEAN, n |-> the integer]
parseInt(s) ==
  LET t0 == SkipWhitespace(s)
      neg == Len(t0) > 0 /\ t0[1] = "-"
      t1 == IF Len(t0) > 0 /\ t0[1] \in {"-", "+"} THEN Tail(t0) ELSE t0
      hex == Len(t1) >= 2 /\ t1[1] = "0" /\ t1[2] \in {"x", "X"}
      t2 == IF hex THEN Tail(Tail(t1)) ELSE t1
      r == ReadDigits(t2, IF hex THEN 16 ELSE 10, 0, FALSE)
  IN IF r.any THEN [nan |-> FALSE, n |-> IF neg THEN 0 - r.n ELSE r.n]
     ELSE [nan |-> TRUE, n |-> 0]

IsDigit(c) == IndexIn(DigitChars, c) > 0

\* number of digits at the end of s
RECURSIVE TrailingDigits(_)
TrailingDigits(s) ==
  IF Len(s) > 0 /\ IsDigit(s[Len(s)])
  THEN 1 + TrailingDigits(SubSeq(s, 1, Len(s) - 1))
  ELSE 0

IssuesPath == <<"/", "i", "s", "s", "u", "e", "s", "/">>

\* url.match(/\/issues\/(\d+)$/): [matched |-> BOOLEAN, capture |-> group 1]
matchIssueNumber(url) ==
  LET d == TrailingDigits(url)
      h == Len(url) - d
      p == Len(IssuesPath)
  IN IF d >= 1 /\ h >= p /\ SubSeq(url, h - p + 1, h) = IssuesPath
     THEN [matched |-> TRUE, capture |-> SubSeq(url, h + 1, Len(url))]
     ELSE [matched |-> FALSE, capture |-> <<>>]

-----------------------------------------------------------------------------
(* Config Validator                                                        *)

\* validateLabels: [err |-> the error thrown or "none", val |-> the labels];
\* column_labels_index is a value, which has to be an integer
validateLabels(column_labels_index, labels) ==
  IF column_labels_index.t # "number"
  THEN [err |-> "TypeError", val |-> <<>>]
  ELSE IF labels.t # "array"
  THEN [err |-> "TypeError", val |-> <<>>]
  ELSE [err |-> "none",
        val |-> LET kept == SelectSeq(labels.items, isNonEmptyString)
                IN [i \in 1..Len(kept) |-> Str(toLowerCase(kept[i].s))]]

\* mutant: the name pair is tried before column_id
validateColumnIdentifiers_NamesFirst(column_labels) ==
  IF /\ HasKey(column_labels, "column_name")
     /\ isNonEmptyString(Get(column_labels, "column_name"))
     /\ HasKey(column_labels, "project_name")
     /\ isNonEmptyString(Get(column_labels, "project_name"))
  THEN [err |-> "none", val |-> Delete(column_labels, "column_id")]
  ELSE IF HasKey(column_labels, "column_id")
          /\ isNonEmptyString(Get(column_labels, "column_id"))
  THEN [err |-> "none",
        val |-> Delete(Delete(column_labels, "column_name"), "project_name")]
  ELSE [err |-> "ReferenceError", val |-> column_labels]

\* the column identification branch of validateColumnLabels (index.js:327-334)
validateColumnIdentifiers(column_labels) ==
  IF HasKey(column_labels, "column_id")
     /\ isNonEmptyString(Get(column_labels, "column_id"))
  THEN [err |-> "none",
        val |-> Delete(Delete(column_labels, "column_name"), "project_name")]
  ELSE IF /\ HasKey(column_labels, "column_name")
          /\ isNonEmptyString(Get(column_labels, "column_name"))
          /\ HasKey(column_labels, "project_name")
          /\ isNonEmptyString(Get(column_labels, "project_name"))
  THEN [err |-> "none", val |-> Delete(column_labels, "column_id")]
  ELSE [err |-> "ReferenceError", val |-> column_labels]

\* validateColumnLabels: [err |-> the error thrown or "none",
\*                        val |-> the entry as the function leaves it]
validateColumnLabels(column_labels, column_labels_index) ==
  IF ~isObject(column_labels)
  THEN [err |-> "TypeError", val |-> column_labels]
  ELSE IF ~HasKey(column_labels, "labels")
  THEN [err |-> "ReferenceError", val |-> column_labels]
  ELSE
    LET ids == validateColumnIdentifiers(column_labels)
        checked == validateLabels(column_labels_index, Get(ids.val, "labels"))
        filtered_labels == IF checked.err = "none" THEN checked.val ELSE <<>>
    IN IF ids.err # "none" THEN ids
       ELSE IF Len(filtered_labels) = 0 THEN [err |-> "Error", val |-> ids.val]
       ELSE [err |-> "none", val |-> Put(ids.val, "labels", Arr(filtered_labels))]

\* JSON.parse of the raw input: the payload either has no JSON reading
\* (SyntaxError) or decodes to the value it carries
JSONparse(text) ==
  IF text.parses THEN [err |-> "none", val |-> text.value]
  ELSE [err |-> "SyntaxError", val |-> Undefined]

\* the indices of the entries that validateColumnLabels accepts, in order
RECURSIVE keptIndices(_, _)
keptIndices(entries, i) ==
  IF i > Len(entries) THEN <<>>
  ELSE IF validateColumnLabels(entries[i], Num(i - 1)).err = "none"
       THEN <<i>> \o keptIndices(entries, i + 1)
       ELSE keptIndices(entries, i + 1)

\* validateColumnsLabels: [err, val |-> the valid directives,
\*                         from |-> the input index of each of them]
validateColumnsLabels(columns_labels_as_string) ==
  LET parsed == JSONparse(columns_labels_as_string)
  IN IF parsed.err # "none" THEN [err |-> parsed.err, val |-> <<>>, from |-> <<>>]
     ELSE IF parsed.val.t # "array"
     THEN [err |-> "TypeError", val |-> <<>>, from |-> <<>>]
     ELSE
       LET entries == parsed.val.items
           kept == keptIndices(entries, 1)
           valid_columns_labels ==
             [j \in 1..Len(kept) |->
                validateColumnLabels(entries[kept[j]], Num(kept[j] - 1)).val]
       IN IF Len(valid_columns_labels) = 0
          THEN [err |-> "Error", val |-> <<>>, from |-> <<>>]
          ELSE [err |-> "none", val |-> valid_columns_labels, from |-> kept]

-----------------------------------------------------------------------------
(* The remote repository: one project with one column                      *)

PN_Test == <<"T", "e", "s", "t">>
PN_Nonexistent == <<"N", "o", "n", "e">>
CN_ToDo == <<"T", "o", " ", "D", "o">>
CN_Missing == <<"D", "o", "n", "e">>

\* GET /repos/{owner}/{repo}/projects
RepoProjects == <<[id |-> 7, name |-> PN_Test]>>

\* GET /projects/{project_id}/columns
ProjectColumns(projectId) ==
  IF projectId = 7 THEN <<[id |-> 42, name |-> CN_ToDo]>> ELSE <<>>

\* positions of the k issue cards among the n cards of the column
IssuePositions(k, n) ==
  {IF k = 1 THEN 1 ELSE 1 + ((j - 1) * (n - 1)) \div (k - 1) : j \in 1..k}

\* content_url of the j-th issue card of the column
IssueUrl(w, j) ==
  <<"r">> \o IssuesPath \o
    (IF w.bad /\ j = 1 THEN <<"a", "b", "c">> ELSE <<DigitChars[j + 1]>>)

\* the non-archived cards of column 42, in the order the remote lists them
ColumnCards(w) ==
  LET n == w.k + w.m
      pos == IssuePositions(w.k, n)
  IN [i \in 1..n |->
        [t |-> "object", id |-> i,
         content_url |->
           IF i \in pos
           THEN Str(IssueUrl(w, Cardinality({q \in pos : q <= i})))
           ELSE Undefined]]

\* octokit.projects.listCards: the page's data, for a column that exists
CardPageData(w, column_id, pageNumber) ==
  LET all == ColumnCards(w)
      first == (pageNumber - 1) * MAX_CARDS_PER_PAGE + 1
      last == IF pageNumber * MAX_CARDS_PER_PAGE < Len(all)
              THEN pageNumber * MAX_CARDS_PER_PAGE ELSE Len(all)
  IN IF column_id = 42 THEN SubSeq(all, first, last) ELSE <<>>

\* whether the remote knows the column (an unknown column answers 404)
ColumnExists(column_id) == column_id = 42

\* GET /repos/{owner}/{repo}/issues/{issue_number}/labels
RemoteIssueLabels(issue_number) ==
  <<[name |-> <<"H", "e", "l", "p">>],
    [name |-> <<"É", "l", "a", "n">>],
    [name |-> <<"_", "_", "P", "r", "o", "t", "o", "_", "_">>]>>

-----------------------------------------------------------------------------
(* Parameter checks of the fetchers                                        *)

\* the checks at the head of getColumnCardIssues (index.js:113-125):
\* [err |-> the error thrown or "none", id |-> columnId after coercion]
checkColumnId(columnId_) ==
  LET p == parseInt(columnId_.s)
      coerced == IF columnId_.t = "string" THEN Num(p.n) ELSE columnId_
  IN IF columnId_.t = "string" /\ (p.nan \/ p.n = 0)
     THEN [err |-> "TypeError", id |-> 0]
     ELSE IF coerced.t # "number" THEN [err |-> "TypeError", id |-> 0]
     ELSE IF coerced.n < 0 THEN [err |-> "RangeError", id |-> 0]
     ELSE [err |-> "none", id |-> coerced.n]

\* the checks at the head of getCardPage (index.js:36-62), reached with the
\* integer columnId and page of getColumnCardIssues
checkCardPage(columnId_, pageNumber) ==
  IF columnId_ < 0 THEN "RangeError"
  ELSE IF pageNumber < 1 THEN "RangeError"
  ELSE "none"

\* the checks at the head of getColumn (index.js:82-94) on project.id
checkProjectId(projectId) ==
  IF projectId.t # "number" THEN "TypeError"
  ELSE IF projectId.n < 0 THEN "RangeError"
  ELSE "none"

\* mutant: a miss falls back to the first element of the list
findByName_FirstOnMiss(list, name) ==
  IF Len(list) = 0 THEN [found |-> FALSE, id |-> 0]
  ELSE IF \E i \in 1..Len(list) : list[i].name = name
  THEN [found |-> TRUE,
        id |-> list[CHOOSE i \in 1..Len(list) :
                      /\ list[i].name = name
                      /\ \A j \in 1..(i - 1) : list[j].name # name].id]
  ELSE [found |-> TRUE, id |-> list[1].id]

\* Array.prototype.find by name: the first element, or Undefined
findByName(list, name) ==
  IF \E i \in 1..Len(list) : list[i].name = name
  THEN LET i == CHOOSE i \in 1..Len(list) :
                  /\ list[i].name = name
                  /\ \A j \in 1..(i - 1) : list[j].name # name
       IN [found |-> TRUE, id |-> list[i].id]
  ELSE [found |-> FALSE, id |-> 0]

\* mutant: the loop goes on while a page holds any card
hasNextPage_WhileNonEmpty(data) == Len(data) > 0

\* while (cardPage.data.length === MAX_CARDS_PER_PAGE) (index.js:141)
hasNextPage(data) == Len(data) = MAX_CARDS_PER_PAGE

\* cardPage.data.filter((card) => card.content_url)
filterIssueCards(data) == SelectSeq(data, LAMBDA card : Truthy(card.content_url))

\* the key whose assignment sets no property of an object
ProtoKey == <<"_", "_", "p", "r", "o", "t", "o", "_", "_">>

\* getIssueLabels: the label names of the response, lower-cased, as the keys
\* that labelsAsObject[name] = true creates
labelsAsObject(data) ==
  {toLowerCase(data[i].name) : i \in 1..Len(data)} \ {ProtoKey}

-----------------------------------------------------------------------------
(* The inputs that are enumerated                                          *)

LabelsHelpWanted == Arr(<<Str(<<"H", "e", "l", "p">>)>>)
Id42 == Str(<<"4", "2">>)

E_idString == Obj([column_id |-> Id42, labels |-> LabelsHelpWanted])
E_idInteger == Obj([column_id |-> Num(42), labels |-> LabelsHelpWanted])
E_names == Obj([column_name |-> Str(CN_ToDo), project_name |-> Str(PN_Test),
                labels |-> LabelsHelpWanted])
E_noProject == Obj([column_name |-> Str(CN_ToDo),
                    project_name |-> Str(PN_Nonexistent),
                    labels |-> LabelsHelpWanted])
E_noColumn == Obj([column_name |-> Str(CN_Missing), project_name |-> Str(PN_Test),
                   labels |-> LabelsHelpWanted])
E_bothInteger == Obj([column_id |-> Num(42), column_name |-> Str(CN_ToDo),
                      project_name |-> Str(PN_Test), labels |-> LabelsHelpWanted])
E_bothString == Obj([column_id |-> Id42, column_name |-> Str(CN_Missing),
                     project_name |-> Str(PN_Nonexistent),
                     labels |-> LabelsHelpWanted])
E_idTab == Obj([column_id |-> Str(<<"\t", "4", "2">>),
                labels |-> LabelsHelpWanted])
E_idText == Obj([column_id |-> Str(<<"a", "b", "c">>), labels |-> LabelsHelpWanted])
E_noLabelsKey == Obj([column_id |-> Id42])
E_mixedLabels == Obj([column_id |-> Id42,
                      labels |-> Arr(<<Num(5), Str(<<>>), Str(<<"B", "u", "g">>),
                                       Str(<<"o", "k">>),
                                       Str(<<"É", "T", "É">>)>>)])
E_noValidLabel == Obj([column_id |-> Id42, labels |-> Arr(<<Str(<<>>), Null>>)])
E_labelsNotArray == Obj([column_id |-> Id42, labels |-> Str(<<"b", "u", "g">>)])
E_emptyName == Obj([column_name |-> Str(<<>>), project_name |-> Str(PN_Test),
                    labels |-> LabelsHelpWanted])

\* entries that exercise the validator
ValidationEntries ==
  {E_idString, E_idInteger, E_names, E_noProject, E_bothInteger, E_bothString,
   E_idTab, E_idText, E_noLabelsKey, E_mixedLabels, E_noValidLabel,
   E_labelsNotArray, E_emptyName, Null}

\* entries that exercise the pipeline behind the validator
PipelineEntries == {E_idString, E_names, E_noProject, E_noColumn}

ArraysOver(entries) ==
  UNION {[1..n -> entries] : n \in 0..MaxDirectives}

Payload(value) == [parses |-> TRUE, value |-> value]

ValidationPayloads ==
  {[parses |-> FALSE, value |-> Undefined], Payload(E_idString), Payload(Null)}
    \cup {Payload(Arr(a)) : a \in ArraysOver(ValidationEntries)}

PipelinePayloads == {Payload(Arr(a)) : a \in ArraysOver(PipelineEntries)}

\* numbers of notes that put the column's size at and next to the page limits
NoteCounts ==
  {0, 1} \cup {p * MAX_CARDS_PER_PAGE - d : p \in 1..MaxFullPages, d \in {0, 1}}

\* the spec's scenario: 3 issue cards and 1 note
ScenarioWorld == [k |-> 3, m |-> 1, bad |-> FALSE]

Worlds ==
  {[k |-> k, m |-> m, bad |-> FALSE] : k \in 0..MaxIssueCards, m \in NoteCounts}
    \cup {[k |-> k, m |-> 1, bad |-> TRUE] : k \in 1..MaxIssueCards}

-----------------------------------------------------------------------------
(* main                                                                    *)

\* the state of a labelCards call: its arguments, the locals of its promise
\* executor, the state of the promise chain of each card, and its result
LCState(phase, cardData, labels) ==
  [phase |-> phase, cardData |-> cardData, labels |-> labels,
   delay |-> 0, cardLabelAttemptCount |-> 0, cardsLabeledCount |-> 0,
   requestSentCount |-> 0, interval |-> FALSE, promise |-> <<>>,
   sentAt |-> <<>>, outcome |-> <<>>, value |-> 0, error |-> "none"]

\* main as it stands never calls labelCards (index.js:450)
NoLabelCards == LCState("idle", Arr(<<>>), Arr(<<>>))

\* the configuration and the remote column of a run: the validator's cases
\* against the scenario's column, lists of directives against columns of a
\* few cards, and single directives against columns of every size
Init ==
  /\ \/ config \in ValidationPayloads /\ world = ScenarioWorld
     \/ config \in PipelinePayloads /\ world \in {w \in Worlds : w.m <= 1}
     \/ /\ config \in PipelinePayloads
        /\ Len(config.value.items) <= 1
        /\ world \in Worlds
  /\ pc = "start"
  /\ validColumnsLabels = [val |-> <<>>, from |-> <<>>]
  /\ dirIdx = 0
  /\ columnId = Undefined
  /\ project = [found |-> FALSE, id |-> 0]
  /\ gcColumnId = 0
  /\ cardIssues = <<>>
  /\ page = 0
  /\ cards = <<>>
  /\ cardIdx = 0
  /\ exitCode = "running"
  /\ fatal = "none"
  /\ requests = <<>>
  /\ pending = {}
  /\ failed = {}
  /\ calls = <<>>
  /\ logs = <<>>
  /\ lc = NoLabelCards

\* one console line: its level, what it reports, the directive (or card) it
\* is about, and the value printed with it
LogEntry(level, tag, about, data) ==
  [level |-> level, tag |-> tag, dir |-> about, data |-> data]

Log(level, tag) == Append(logs, LogEntry(level, tag, dirIdx, {}))

Request(kind, arg, pageNumber) ==
  [kind |-> kind, dir |-> dirIdx, arg |-> arg, page |-> pageNumber,
   labels |-> <<>>]

\* mutant: the request is issued while the previous one is still in flight
Await_BeforeSettlement(req, at, pend0) ==
  /\ requests' = Append(requests, req)
  /\ pending' = pending \cup {Len(requests) + 1}
  /\ pc' = at

\* issue one remote request and suspend main at the given await; pend0 is
\* the set of requests in flight just before
Await(req, at, pend0) ==
  /\ requests' = Append(requests, req)
  /\ pending' = pend0 \cup {Len(requests) + 1}
  /\ pc' = at

\* mutant: main goes on without the response it awaits
Settled_LeavesInFlight == pending

\* the requests in flight once the response main awaits has arrived
Settled == pending \ {Len(requests)}

\* console.error(...) and continue: the directive is skipped
SkipDirective(tag) ==
  /\ logs' = Log("error", tag)
  /\ dirIdx' = dirIdx + 1
  /\ pc' = "directive"

\* mutant: the error of validateColumnsLabels is dropped and main goes on
MainStart_SwallowsThrow ==
  /\ pc = "start"
  /\ LET v == validateColumnsLabels(config)
     IN IF v.err # "none"
        THEN /\ validColumnsLabels' = [val |-> <<>>, from |-> <<>>]
             /\ dirIdx' = 1
             /\ pc' = "directive"
             /\ UNCHANGED <<fatal, exitCode>>
        ELSE /\ validColumnsLabels' = [val |-> v.val, from |-> v.from]
             /\ dirIdx' = 1
             /\ pc' = "directive"
             /\ UNCHANGED <<fatal, exitCode>>
  /\ UNCHANGED <<config, world, columnId, project, gcColumnId, cardIssues, page,
                 cards, cardIdx, requests, pending, failed, calls, logs, lc>>

\* main, line 389, and the catch of line 482
MainStart ==
  /\ pc = "start"
  /\ LET v == validateColumnsLabels(config)
     IN IF v.err # "none"
        THEN /\ fatal' = v.err
             /\ exitCode' = "nonzero"
             /\ pc' = "exited"
             /\ UNCHANGED <<validColumnsLabels, dirIdx>>
        ELSE /\ validColumnsLabels' = [val |-> v.val, from |-> v.from]
             /\ dirIdx' = 1
             /\ pc' = "directive"
             /\ UNCHANGED <<fatal, exitCode>>
  /\ UNCHANGED <<config, world, columnId, project, gcColumnId, cardIssues, page,
                 cards, cardIdx, requests, pending, failed, calls, logs, lc>>

\* cards = await getColumnCardIssues(columnId), up to its first await
\* (index.js:427-435 and 112-132)
CallGetColumnCardIssues(arg, calls0, pend0) ==
  LET chk == checkColumnId(arg)
  IN /\ calls' = Append(calls0, [fn |-> "getColumnCardIssues", dir |-> dirIdx,
                                 arg |-> arg])
     /\ IF chk.err # "none" \/ checkCardPage(chk.id, 1) # "none"
        THEN /\ SkipDirective("cards_failed")
             /\ requests' = requests
             /\ pending' = pend0
             /\ UNCHANGED <<gcColumnId, cardIssues, page>>
        ELSE /\ gcColumnId' = chk.id
             /\ cardIssues' = <<>>
             /\ page' = 1
             /\ Await(Request("listCards", chk.id, 1), "awaitCardPage", pend0)
             /\ UNCHANGED <<logs, dirIdx>>

\* the head of the loop over the directives (index.js:391-400, 427-428)
DirectiveStep ==
  /\ pc = "directive"
  /\ IF dirIdx > Len(validColumnsLabels.val)
     THEN /\ pc' = "done"
          /\ exitCode' = "zero"
          /\ UNCHANGED <<columnId, gcColumnId, cardIssues, page, requests,
                         pending, calls, logs, dirIdx>>
     ELSE
       LET column_labels == validColumnsLabels.val[dirIdx]
           id == Get(column_labels, "column_id")
           projectName == Get(column_labels, "project_name")
       IN /\ columnId' = id
          /\ exitCode' = exitCode
          /\ IF ~Truthy(id)
             THEN /\ calls' = Append(calls, [fn |-> "getProject", dir |-> dirIdx,
                                             arg |-> projectName])
                  /\ IF ~isNonEmptyString(projectName)
                     THEN /\ SkipDirective("project_failed")
                          /\ UNCHANGED <<requests, pending>>
                     ELSE /\ Await(Request("listProjects", 0, 0), "awaitProject",
                                   pending)
                          /\ UNCHANGED <<logs, dirIdx>>
                  /\ UNCHANGED <<gcColumnId, cardIssues, page>>
             ELSE CallGetColumnCardIssues(id, calls, pending)
  /\ UNCHANGED <<config, world, validColumnsLabels, project, cards, cardIdx,
                 fatal, failed, lc>>

\* the continuation of await getProject(...) (index.js:185-192, 400-422)
ProjectResponse ==
  /\ pc = "awaitProject"
  /\ \E ok \in BOOLEAN :
       /\ failed' = IF ok THEN failed ELSE failed \cup {Len(requests)}
       /\ IF ~ok
          THEN /\ SkipDirective("project_failed")
               /\ requests' = requests
               /\ pending' = Settled
               /\ UNCHANGED <<project, calls>>
          ELSE
            LET column_labels == validColumnsLabels.val[dirIdx]
                found == findByName(RepoProjects,
                                    Get(column_labels, "project_name").s)
            IN /\ project' = found
               /\ IF ~found.found
                  \* project.id on undefined throws inside the second try
                  THEN /\ SkipDirective("column_failed")
                       /\ requests' = requests
                       /\ pending' = Settled
                       /\ calls' = calls
                  ELSE /\ calls' = Append(calls,
                                          [fn |-> "getColumn", dir |-> dirIdx,
                                           arg |-> Get(column_labels,
                                                       "column_name")])
                       /\ IF checkProjectId(Num(found.id)) # "none"
                          THEN /\ SkipDirective("column_failed")
                               /\ requests' = requests
                               /\ pending' = Settled
                          ELSE /\ Await(Request("listColumns", found.id, 0),
                                        "awaitColumn", Settled)
                               /\ UNCHANGED <<logs, dirIdx>>
  /\ UNCHANGED <<config, world, validColumnsLabels, columnId, gcColumnId,
                 cardIssues, page, cards, cardIdx, exitCode, fatal, lc>>

\* the continuation of await getColumn(...) (index.js:96-102, 410-428)
ColumnResponse ==
  /\ pc = "awaitColumn"
  /\ \E ok \in BOOLEAN :
       /\ failed' = IF ok THEN failed ELSE failed \cup {Len(requests)}
       /\ IF ~ok
          THEN /\ SkipDirective("column_failed")
               /\ requests' = requests
               /\ pending' = Settled
               /\ UNCHANGED <<columnId, calls, gcColumnId, cardIssues, page>>
          ELSE
            LET column_labels == validColumnsLabels.val[dirIdx]
                column == findByName(ProjectColumns(project.id),
                                     Get(column_labels, "column_name").s)
                id == IF column.found THEN Num(column.id) ELSE Null
            IN /\ columnId' = id
               /\ IF ~Truthy(id)
                  THEN /\ SkipDirective("column_failed")
                       /\ requests' = requests
                       /\ pending' = Settled
                       /\ UNCHANGED <<calls, gcColumnId, cardIssues, page>>
                  ELSE CallGetColumnCardIssues(id, calls, Settled)
  /\ UNCHANGED <<config, world, validColumnsLabels, project, cards, cardIdx,
                 exitCode, fatal, lc>>

\* the continuation of await getCardPage(columnId, page) in the loop of
\* getColumnCardIssues, and its return into main (index.js:131-143, 428-435);
\* the remote answers 404 for a column it does not know
CardPageResponse ==
  /\ pc = "awaitCardPage"
  /\ \E answer \in BOOLEAN :
       LET ok == answer /\ ColumnExists(gcColumnId)
           data == CardPageData(world, gcColumnId, page)
           pageCardIssues == filterIssueCards(data)
       IN /\ failed' = IF ok THEN failed ELSE failed \cup {Len(requests)}
          /\ IF ~ok
             THEN /\ SkipDirective("cards_failed")
                  /\ requests' = requests
                  /\ pending' = Settled
                  /\ UNCHANGED <<cardIssues, page, cards, cardIdx>>
             ELSE /\ cardIssues' = cardIssues \o pageCardIssues
                  /\ page' = page + 1
                  /\ IF hasNextPage(data)
                     THEN /\ Await(Request("listCards", gcColumnId, page + 1),
                                   "awaitCardPage", Settled)
                          /\ UNCHANGED <<cards, cardIdx>>
                     ELSE /\ cards' = cardIssues \o pageCardIssues
                          /\ cardIdx' = 1
                          /\ pc' = "cardLoop"
                          /\ requests' = requests
                          /\ pending' = Settled
                  /\ UNCHANGED <<logs, dirIdx>>
  /\ UNCHANGED <<config, world, validColumnsLabels, columnId, project,
                 gcColumnId, exitCode, fatal, calls, lc>>

\* mutant: a card without an issue number ends the loop over the cards
CardStep_StopsAtBadCard ==
  /\ pc = "cardLoop"
  /\ IF cardIdx > Len(cards)
     THEN /\ dirIdx' = dirIdx + 1
          /\ pc' = "directive"
          /\ UNCHANGED <<cardIdx, requests, pending, logs>>
     ELSE
       LET card == cards[cardIdx]
           issueNumberMatchCapture == matchIssueNumber(card.content_url.s)
           issueNumber == parseInt(issueNumberMatchCapture.capture)
       IN IF ~issueNumberMatchCapture.matched
          THEN /\ logs' = Log("warn", "no_issue_number")
               /\ cardIdx' = Len(cards) + 1
               /\ UNCHANGED <<pc, dirIdx, requests, pending>>
          ELSE /\ Await(Request("listLabels", issueNumber.n, 0), "awaitLabels",
                        pending)
               /\ UNCHANGED <<cardIdx, dirIdx, logs>>
  /\ UNCHANGED <<config, world, validColumnsLabels, columnId, project,
                 gcColumnId, cardIssues, page, cards, exitCode, fatal, failed,
                 calls, lc>>

\* the head of the loop over the cards (index.js:437-446, 153-162)
CardStep ==
  /\ pc = "cardLoop"
  /\ IF cardIdx > Len(cards)
     THEN /\ dirIdx' = dirIdx + 1
          /\ pc' = "directive"
          /\ UNCHANGED <<cardIdx, requests, pending, logs>>
     ELSE
       LET card == cards[cardIdx]
           issueNumberMatchCapture == matchIssueNumber(card.content_url.s)
           issueNumber == parseInt(issueNumberMatchCapture.capture)
       IN IF ~issueNumberMatchCapture.matched
          THEN /\ logs' = Log("warn", "no_issue_number")
               /\ cardIdx' = cardIdx + 1
               /\ UNCHANGED <<pc, dirIdx, requests, pending>>
          ELSE /\ Await(Request("listLabels", issueNumber.n, 0), "awaitLabels",
                        pending)
               /\ UNCHANGED <<cardIdx, dirIdx, logs>>
  /\ UNCHANGED <<config, world, validColumnsLabels, columnId, project,
                 gcColumnId, cardIssues, page, cards, exitCode, fatal, failed,
                 calls, lc>>

\* the continuation of await getIssueLabels(...) (index.js:158-170, 446-449);
\* a failed read is caught by nothing in main and reaches line 482
LabelsResponse ==
  /\ pc = "awaitLabels"
  /\ pending' = Settled
  /\ \E ok \in BOOLEAN :
       /\ failed' = IF ok THEN failed ELSE failed \cup {Len(requests)}
       /\ IF ~ok
          THEN /\ fatal' = "Error"
               /\ exitCode' = "nonzero"
               /\ pc' = "exited"
               /\ UNCHANGED <<cardIdx, logs>>
          ELSE /\ logs' = Append(logs,
                           LogEntry("log", "labels", dirIdx,
                                    labelsAsObject(RemoteIssueLabels(
                                      requests[Len(requests)].arg))))
               /\ cardIdx' = cardIdx + 1
               /\ pc' = "cardLoop"
               /\ UNCHANGED <<fatal, exitCode>>
  /\ UNCHANGED <<config, world, validColumnsLabels, dirIdx, columnId, project,
                 gcColumnId, cardIssues, page, cards, requests, calls, lc>>

Next ==
  \/ MainStart
  \/ DirectiveStep
  \/ ProjectResponse
  \/ ColumnResponse
  \/ CardPageResponse
  \/ CardStep
  \/ LabelsResponse

Spec == Init /\ [][Next]_vars

-----------------------------------------------------------------------------
(* Issue Label Mutator and Throttled Batch Dispatcher                      *)

\* labelCardIssue up to its request (index.js:201-220):
\* [err |-> the error its promise rejects with, or "none" when
\*          octokit.issues.addLabels is called,
\*  issue |-> the issue_number of the request, the captured string as it is]
labelCardIssue(card, labels) ==
  LET issueNumberMatchCapture == matchIssueNumber(card.content_url.s)
  IN IF ~isObject(card) THEN [err |-> "TypeError", issue |-> Undefined]
     \* reject is not defined in labelCardIssue
     ELSE IF labels.t # "array"
     THEN [err |-> "ReferenceError", issue |-> Undefined]
     ELSE IF ~Truthy(card.content_url)
     THEN [err |-> "ReferenceError", issue |-> Undefined]
     \* only a string has the method match
     ELSE IF card.content_url.t # "string"
     THEN [err |-> "TypeError", issue |-> Undefined]
     ELSE IF ~issueNumberMatchCapture.matched
     THEN [err |-> "Error", issue |-> Undefined]
     ELSE [err |-> "none", issue |-> Str(issueNumberMatchCapture.capture)]

RECURSIVE SkipTrailingWhitespace(_)
SkipTrailingWhitespace(s) ==
  IF Len(s) > 0 /\ IsWhiteSpace[s[Len(s)]]
  THEN SkipTrailingWhitespace(SubSeq(s, 1, Len(s) - 1))
  ELSE s

\* the results of a conversion to a number:
\* [nan |-> BOOLEAN, inf |-> -1, 0 or 1 (the sign of an infinity),
\*  neg |-> whether the number is below 0, n |-> its integer part (rounded
\*  towards 0), frac |-> the decimal digits of its fractional part]
NumberOf(n) == [nan |-> FALSE, inf |-> 0, neg |-> n < 0, n |-> n, frac |-> <<>>]
NotANumber == [nan |-> TRUE, inf |-> 0, neg |-> FALSE, n |-> 0, frac |-> <<>>]
InfinityOf(sign) ==
  [nan |-> FALSE, inf |-> sign, neg |-> sign < 0, n |-> 0, frac |-> <<>>]

\* the most significant digits, and the most decimal places, of a number
\* that the conversions below compute with
MaxNumberDigits == 9

RECURSIVE Pow10(_)
Pow10(k) == IF k = 0 THEN 1 ELSE 10 * Pow10(k - 1)

\* position of the first character of s that is in set, or 0
FirstIndexOf(s, set) ==
  IF \E i \in 1..Len(s) : s[i] \in set
  THEN CHOOSE i \in 1..Len(s) :
         s[i] \in set /\ \A j \in 1..(i - 1) : s[j] \notin set
  ELSE 0

AllDigits(s) == \A i \in 1..Len(s) : IsDigit(s[i])

RECURSIVE StripLeadingZeros(_)
StripLeadingZeros(s) ==
  IF Len(s) > 0 /\ s[1] = "0" THEN StripLeadingZeros(Tail(s)) ELSE s

InfinityChars == <<"I", "n", "f", "i", "n", "i", "t", "y">>

\* the radix that the prefix 0x, 0o or 0b of t announces, or 10
RadixOf(t) ==
  IF Len(t) >= 2 /\ t[1] = "0"
  THEN CASE t[2] \in {"x", "X"} -> 16
         [] t[2] \in {"o", "O"} -> 8
         [] t[2] \in {"b", "B"} -> 2
         [] OTHER -> 10
  ELSE 10

\* the number that the digits h denote in the radix 16, 8 or 2
PrefixedNumber(h, radix) ==
  LET hs == StripLeadingZeros(h)
      bits == CASE radix = 16 -> 4 [] radix = 8 -> 3 [] OTHER -> 1
  IN IF Len(h) >= 1 /\ \A i \in 1..Len(h) : DigitValue(h[i], radix) >= 0
     THEN CASE Len(hs) * bits <= 30 -> NumberOf(ReadDigits(hs, radix, 0, FALSE).n)
     ELSE NotANumber

\* the parts of an unsigned decimal literal d: the digits before and after
\* the point, and the exponent part after e or E
DecimalParts(d) ==
  LET ePos == FirstIndexOf(d, {"e", "E"})
      mant == IF ePos = 0 THEN d ELSE SubSeq(d, 1, ePos - 1)
      dot == FirstIndexOf(mant, {"."})
  IN [intp |-> IF dot = 0 THEN mant ELSE SubSeq(mant, 1, dot - 1),
      frac |-> IF dot = 0 THEN <<>> ELSE SubSeq(mant, dot + 1, Len(mant)),
      hasExp |-> ePos > 0,
      expo |-> IF ePos = 0 THEN <<>> ELSE SubSeq(d, ePos + 1, Len(d))]

\* the digits of an exponent part, without its sign
ExponentDigits(expo) ==
  IF Len(expo) > 0 /\ expo[1] \in {"-", "+"} THEN Tail(expo) ELSE expo

\* whether the parts are those of a decimal literal
WellFormedDecimal(p) ==
  /\ AllDigits(p.intp)
  /\ AllDigits(p.frac)
  /\ Len(p.intp) + Len(p.frac) >= 1
  /\ p.hasExp => /\ Len(ExponentDigits(p.expo)) >= 1
                 /\ AllDigits(ExponentDigits(p.expo))

RECURSIVE StripTrailingZeros(_)
StripTrailingZeros(s) ==
  IF Len(s) > 0 /\ s[Len(s)] = "0"
  THEN StripTrailingZeros(SubSeq(s, 1, Len(s) - 1))
  ELSE s

\* sign * digits * 10^shift, for digits that neither start nor end with 0
ScaledNumber(sign, digits, shift) ==
  CASE /\ shift >= 0
       /\ Len(digits) + shift <= MaxNumberDigits ->
         NumberOf(sign * ReadDigits(digits, 10, 0, FALSE).n * Pow10(shift))
    [] /\ shift < 0
       /\ Len(digits) <= MaxNumberDigits
       /\ 0 - shift <= MaxNumberDigits ->
         LET places == 0 - shift
             padded == [i \in 1..(places - Len(digits)) |-> "0"] \o digits
             whole == SubSeq(padded, 1, Len(padded) - places)
         IN [nan |-> FALSE, inf |-> 0, neg |-> sign < 0,
             n |-> sign * ReadDigits(whole, 10, 0, FALSE).n,
             frac |-> SubSeq(padded, Len(padded) - places + 1, Len(padded))]

\* the number that the well-formed decimal literal with parts p denotes
DecimalNumber(sign, p) ==
  LET digits == StripLeadingZeros(p.intp \o p.frac)
      expDigits == ExponentDigits(p.expo)
      expValue == IF Len(p.expo) > 0 /\ p.expo[1] = "-"
                  THEN 0 - ReadDigits(expDigits, 10, 0, FALSE).n
                  ELSE ReadDigits(expDigits, 10, 0, FALSE).n
      significant == StripTrailingZeros(digits)
  IN IF Len(digits) = 0 THEN NumberOf(0)
     ELSE CASE Len(StripLeadingZeros(expDigits)) <= 3 ->
                 ScaledNumber(sign, significant,
                              expValue - Len(p.frac)
                                + (Len(digits) - Len(significant)))

\* Number(string): white space is trimmed at both ends; the empty string
\* is 0; 0x, 0o and 0b introduce unsigned hexadecimal, octal and binary
\* digits; otherwise an optional sign is followed by Infinity or by decimal
\* digits with an optional fraction and an optional exponent; every other
\* string is NaN. The value is computed where it has at most
\* MaxNumberDigits significant digits, no digit above the MaxNumberDigits-th
\* place before the point and none below the MaxNumberDigits-th after it;
\* the operator is undefined on the strings that denote other numbers.
StringToNumber(s) ==
  LET t == SkipTrailingWhitespace(SkipWhitespace(s))
      sign == IF Len(t) > 0 /\ t[1] = "-" THEN -1 ELSE 1
      d == IF Len(t) > 0 /\ t[1] \in {"-", "+"} THEN Tail(t) ELSE t
  IN IF Len(t) = 0 THEN NumberOf(0)
     ELSE IF RadixOf(t) # 10 THEN PrefixedNumber(Tail(Tail(t)), RadixOf(t))
     ELSE IF d = InfinityChars THEN InfinityOf(sign)
     ELSE IF ~WellFormedDecimal(DecimalParts(d)) THEN NotANumber
     ELSE DecimalNumber(sign, DecimalParts(d))

\* the number that the operand of >= is converted to
RECURSIVE ToNumber(_)
ToNumber(v) ==
  CASE v.t = "number" -> NumberOf(v.n)
    [] v.t = "string" -> StringToNumber(v.s)
    [] v.t = "null" -> NumberOf(0)
    [] v.t = "array" ->
         IF Len(v.items) = 0 THEN NumberOf(0)
         ELSE IF Len(v.items) > 1 THEN NotANumber
         ELSE IF v.items[1].t \in {"null", "undefined"} THEN NumberOf(0)
         ELSE ToNumber(v.items[1])
    [] OTHER -> NotANumber

\* cardData.length, for a cardData that is neither null nor undefined: the
\* length of an array or a string, the length property of an object if it
\* has one, and undefined otherwise
lengthOf(v) ==
  CASE v.t = "array" -> Num(Len(v.items))
    [] v.t = "string" -> Num(Len(v.s))
    [] v.t = "object" -> Get(v, "length")
    [] OTHER -> Undefined

\* cardData.length >= MAX_CARDS_PER_PAGE ? 1000 : 0 (index.js:237)
delayBetweenRequestsMS(cardData) ==
  LET length == ToNumber(lengthOf(cardData))
  IN IF \/ length.inf = 1
        \/ ~length.nan /\ length.inf = 0 /\ length.n >= MAX_CARDS_PER_PAGE
     THEN THROTTLE_DELAY_MS ELSE 0

\* cards handed to labelCards: a good issue card, a card whose issue
\* reference has no number, and a note
LCCard(id, kind) ==
  [t |-> "object", id |-> id,
   content_url |->
     CASE kind = "issue" -> Str(<<"r">> \o IssuesPath \o <<DigitChars[id + 1]>>)
       [] kind = "text" -> Str(<<"r">> \o IssuesPath \o <<"a", "b", "c">>)
       [] OTHER -> Undefined]

LCCardData ==
  {Arr([i \in 1..Len(kinds) |-> LCCard(i, kinds[i])]) :
     kinds \in UNION {[1..n -> {"issue", "text", "note"}] : n \in 0..MaxBatch}}
    \cup {Null, Undefined, Obj([id |-> Num(1)]), Str(<<"a", "b">>),
          Arr(<<[t |-> "object", id |-> 1, content_url |-> Num(5)],
                LCCard(2, "issue")>>),
          Obj([length |-> Num(MAX_CARDS_PER_PAGE)]),
          Obj([length |-> Str(<<"1", "e", "3">>)])}

LCLabels == {LabelsHelpWanted, Null}

\* the state of main's variables while labelCards is driven on its own
LCInit ==
  /\ config = [parses |-> FALSE, value |-> Undefined]
  /\ world = ScenarioWorld
  /\ pc = "labelCards"
  /\ validColumnsLabels = [val |-> <<>>, from |-> <<>>]
  /\ dirIdx = 0
  /\ columnId = Undefined
  /\ project = [found |-> FALSE, id |-> 0]
  /\ gcColumnId = 0
  /\ cardIssues = <<>>
  /\ page = 0
  /\ cards = <<>>
  /\ cardIdx = 0
  /\ exitCode = "running"
  /\ fatal = "none"
  /\ requests = <<>>
  /\ pending = {}
  /\ failed = {}
  /\ calls = <<>>
  /\ logs = <<>>
  /\ \E cardData \in LCCardData, labels \in LCLabels :
       lc = LCState("called", cardData, labels)

\* labelCards from its call to the return of the promise (index.js:236-283)
LCCall ==
  /\ lc.phase = "called"
  /\ LET length == lengthOf(lc.cardData)
     IN lc' =
          IF lc.cardData.t \in {"null", "undefined"}
          \* cardData.length throws before the promise exists
          THEN [lc EXCEPT !.phase = "threw", !.error = "TypeError"]
          ELSE IF lc.cardData.t # "array"
          THEN [lc EXCEPT !.phase = "rejected", !.error = "TypeError",
                          !.delay = delayBetweenRequestsMS(lc.cardData)]
          ELSE IF length.n = 0
          THEN [lc EXCEPT !.phase = "resolved", !.value = 0,
                          !.delay = delayBetweenRequestsMS(lc.cardData)]
          ELSE IF lc.labels.t # "array"
          THEN [lc EXCEPT !.phase = "rejected", !.error = "TypeError",
                          !.delay = delayBetweenRequestsMS(lc.cardData)]
          ELSE [lc EXCEPT !.phase = "pending", !.interval = TRUE,
                          !.delay = delayBetweenRequestsMS(lc.cardData),
                          !.promise = [i \in 1..length.n |-> "unsent"],
                          !.sentAt = [i \in 1..length.n |-> 0],
                          !.outcome = [i \in 1..length.n |-> "none"]]
  /\ UNCHANGED mainVars

\* mutant: the interval is cleared as soon as a call fails at once
LCTick_StopsOnFailure ==
  /\ lc.phase \in {"pending", "resolved"}
  /\ lc.interval
  /\ LET i == lc.requestSentCount + 1
         card == lc.cardData.items[i]
         sent == labelCardIssue(card, lc.labels)
     IN /\ lc' = [lc EXCEPT
                    !.promise[i] = IF sent.err = "none" THEN "inflight"
                                   ELSE "rejected",
                    !.sentAt[i] = IF sent.err = "none" THEN Len(requests) + 1
                                  ELSE 0,
                    !.outcome[i] = IF sent.err = "none" THEN "none" ELSE sent.err,
                    !.requestSentCount = i,
                    !.interval = ~(i >= Len(lc.cardData.items)) /\ sent.err = "none"]
        /\ calls' = Append(calls, [fn |-> "labelCardIssue", dir |-> 0,
                                   arg |-> Num(card.id)])
        /\ IF sent.err = "none"
           THEN /\ requests' = Append(requests,
                                      [kind |-> "addLabels", dir |-> 0,
                                       arg |-> sent.issue, page |-> 0,
                                       labels |-> lc.labels.items])
                /\ pending' = pending \cup {Len(requests) + 1}
           ELSE UNCHANGED <<requests, pending>>
  /\ UNCHANGED <<config, world, pc, validColumnsLabels, dirIdx, columnId,
                 project, gcColumnId, cardIssues, page, cards, cardIdx, exitCode,
                 fatal, failed, logs>>

\* one run of the setInterval callback (index.js:263-282)
LCTick ==
  /\ lc.phase \in {"pending", "resolved"}
  /\ lc.interval
  /\ LET i == lc.requestSentCount + 1
         card == lc.cardData.items[i]
         sent == labelCardIssue(card, lc.labels)
     IN /\ lc' = [lc EXCEPT
                    !.promise[i] = IF sent.err = "none" THEN "inflight"
                                   ELSE "rejected",
                    !.sentAt[i] = IF sent.err = "none" THEN Len(requests) + 1
                                  ELSE 0,
                    !.outcome[i] = IF sent.err = "none" THEN "none" ELSE sent.err,
                    !.requestSentCount = i,
                    !.interval = ~(i >= Len(lc.cardData.items))]
        /\ calls' = Append(calls, [fn |-> "labelCardIssue", dir |-> 0,
                                   arg |-> Num(card.id)])
        /\ IF sent.err = "none"
           THEN /\ requests' = Append(requests,
                                      [kind |-> "addLabels", dir |-> 0,
                                       arg |-> sent.issue, page |-> 0,
                                       labels |-> lc.labels.items])
                /\ pending' = pending \cup {Len(requests) + 1}
           ELSE UNCHANGED <<requests, pending>>
  /\ UNCHANGED <<config, world, pc, validColumnsLabels, dirIdx, columnId,
                 project, gcColumnId, cardIssues, page, cards, cardIdx, exitCode,
                 fatal, failed, logs>>

\* the remote answers one addLabels request, in any order
LCResponse ==
  /\ \E i \in DOMAIN lc.promise, ok \in BOOLEAN :
       /\ lc.promise[i] = "inflight"
       /\ lc' = [lc EXCEPT !.promise[i] = IF ok THEN "fulfilled" ELSE "rejected",
                           !.outcome[i] = IF ok THEN "labeled" ELSE "Error"]
       /\ pending' = pending \ {lc.sentAt[i]}
       /\ failed' = IF ok THEN failed ELSE failed \cup {lc.sentAt[i]}
  /\ UNCHANGED <<config, world, pc, validColumnsLabels, dirIdx, columnId,
                 project, gcColumnId, cardIssues, page, cards, cardIdx, exitCode,
                 fatal, requests, calls, logs>>

\* .then(() => { cardsLabeledCount++ }) (index.js:266-268)
LCThen ==
  /\ \E i \in DOMAIN lc.promise :
       /\ lc.promise[i] = "fulfilled"
       /\ lc' = [lc EXCEPT !.promise[i] = "finally",
                           !.cardsLabeledCount = @ + 1]
  /\ UNCHANGED mainVars

\* .catch((e) => { console.warn(...) }) (index.js:268-271)
LCCatch ==
  /\ \E i \in DOMAIN lc.promise :
       /\ lc.promise[i] = "rejected"
       /\ lc' = [lc EXCEPT !.promise[i] = "finally"]
       /\ logs' = Append(logs, LogEntry("warn", "label_failed",
                                        lc.cardData.items[i].id, {}))
  /\ UNCHANGED <<config, world, pc, validColumnsLabels, dirIdx, columnId,
                 project, gcColumnId, cardIssues, page, cards, cardIdx, exitCode,
                 fatal, requests, pending, failed, calls>>

\* mutant: the attempts are compared with the requests sent so far
LCFinally_ComparesWithSent ==
  /\ \E i \in DOMAIN lc.promise :
       /\ lc.promise[i] = "finally"
       /\ LET attempts == lc.cardLabelAttemptCount + 1
              resolves == attempts = lc.requestSentCount /\ lc.phase = "pending"
          IN lc' = [lc EXCEPT !.promise[i] = "settled",
                              !.cardLabelAttemptCount = attempts,
                              !.phase = IF resolves THEN "resolved" ELSE @,
                              !.value = IF resolves THEN lc.cardsLabeledCount ELSE @]
  /\ UNCHANGED mainVars

\* .finally(() => { ... resolve(cardsLabeledCount) }) (index.js:271-277)
LCFinally ==
  /\ \E i \in DOMAIN lc.promise :
       /\ lc.promise[i] = "finally"
       /\ LET attempts == lc.cardLabelAttemptCount + 1
              resolves == attempts = Len(lc.cardData.items) /\ lc.phase = "pending"
          IN lc' = [lc EXCEPT !.promise[i] = "settled",
                              !.cardLabelAttemptCount = attempts,
                              !.phase = IF resolves THEN "resolved" ELSE @,
                              !.value = IF resolves THEN lc.cardsLabeledCount ELSE @]
  /\ UNCHANGED mainVars

LCNext ==
  \/ LCCall
  \/ LCTick
  \/ LCResponse
  \/ LCThen
  \/ LCCatch
  \/ LCFinally

SpecLabelCards == LCInit /\ [][LCNext]_vars

\* main as it runs, and labelCards called on its own
SpecMainAndLabelCards == (Init \/ LCInit) /\ [][Next \/ LCNext]_vars

-----------------------------------------------------------------------------
(* Vocabulary of the properties                                            *)

Directives == validColumnsLabels.val

\* the entry of the configuration that directive j was validated from
EntryOf(j) == config.value.items[validColumnsLabels.from[j]]

RequestsOf(j, kinds) ==
  {r \in 1..Len(requests) : requests[r].dir = j /\ requests[r].kind \in kinds}

CallsOf(j, fns) ==
  {c \in 1..Len(calls) : calls[c].dir = j /\ calls[c].fn \in fns}

\* the run has ended, either way
Terminated == pc \in {"done", "exited"}

\* validateColumnsLabels threw: main ended before its loop
ConfigurationRejected == pc = "exited" /\ dirIdx = 0

\* the remote column a directive identifies, or 0 when it identifies none
ColumnIdentifiedBy(d) ==
  IF HasKey(d, "column_id")
  THEN checkColumnId(Get(d, "column_id")).id
  ELSE LET p == findByName(RepoProjects, Get(d, "project_name").s)
           c == findByName(ProjectColumns(p.id), Get(d, "column_name").s)
       IN IF p.found /\ c.found THEN c.id ELSE 0

\* the issue numbers of the issue-backed cards of a remote column
IssuesOfColumn(column_id) ==
  IF ~ColumnExists(column_id) THEN {}
  ELSE LET all == ColumnCards(world)
       IN {parseInt(matchIssueNumber(all[i].content_url.s).capture).n :
             i \in {x \in 1..Len(all) :
                      /\ Truthy(all[x].content_url)
                      /\ matchIssueNumber(all[x].content_url.s).matched}}

-----------------------------------------------------------------------------
(* C1: when main has completed and no remote call has failed, then for     *)
(* every valid directive, every issue-backed card of the column it         *)
(* identifies and every label of the directive, a request removing that    *)
(* label from the card's issue was issued.                                 *)
C1_LabelsRemovedOnCompletion ==
  (pc = "done" /\ failed = {}) =>
    \A j \in 1..Len(Directives) :
      \A issue \in IssuesOfColumn(ColumnIdentifiedBy(Directives[j])) :
        \A l \in 1..Len(Get(Directives[j], "labels").items) :
          \E r \in 1..Len(requests) :
            /\ requests[r].kind = "removeLabel"
            /\ requests[r].arg = issue
            /\ \E x \in 1..Len(requests[r].labels) :
                 requests[r].labels[x] = Get(Directives[j], "labels").items[l]

(* C2: with the single directive {column_id: 42 (an integer), labels:      *)
(* ["Help"]} and a column of 3 issue cards and 1 note, a run in which no    *)
(* remote call fails ends with the 3 issue cards returned by the           *)
(* paginator, 3 label-add calls issued and a reported result of 3.         *)
C2_IntegerColumnIdScenario ==
  ( /\ config = Payload(Arr(<<E_idInteger>>))
    /\ world = ScenarioWorld
    /\ Terminated
    /\ failed = {} )
  => /\ Len(cards) = world.k
     /\ Cardinality({r \in 1..Len(requests) : requests[r].kind = "addLabels"})
          = world.k
     /\ lc.phase = "resolved"
     /\ lc.value = world.k

(* C3: the process ends with a non-zero exit code only when the            *)
(* configuration is fatally invalid; no failure of a remote call while a   *)
(* directive is processed ends the run.                                    *)
C3_NonZeroExitOnlyForConfiguration ==
  exitCode = "nonzero" => validateColumnsLabels(config).err # "none"

-----------------------------------------------------------------------------
\* the attempts of the labelCards call that failed, by the outcome recorded
\* when labelCardIssue threw or the remote answered
LCFailedAttempts ==
  {i \in DOMAIN lc.outcome : lc.outcome[i] \notin {"none", "labeled"}}

LCAllSettled ==
  /\ Len(lc.promise) >= 1
  /\ \A i \in DOMAIN lc.promise : lc.promise[i] = "settled"

(* C4: for a batch of n >= 1 cards of which f label mutations fail,        *)
(* labelCards is resolved exactly when all n attempts have settled, never  *)
(* before, and its value is then n - f, whatever the interleaving of timer *)
(* ticks and request completions.                                          *)
C4_DispatcherCount ==
  /\ (lc.phase = "resolved" /\ lengthOf(lc.cardData).n >= 1) =>
       /\ LCAllSettled
       /\ lc.value = Len(lc.cardData.items) - Cardinality(LCFailedAttempts)
  /\ LCAllSettled => lc.phase = "resolved"

\* a batch of two or more cards is resolved with a failed attempt in it and
\* a successful one
C4_Witness ==
  /\ lc.phase = "resolved"
  /\ Len(lc.promise) >= 2
  /\ Cardinality(LCFailedAttempts) >= 1
  /\ lc.value >= 1
  /\ \E r \in failed : requests[r].kind = "addLabels"

-----------------------------------------------------------------------------
\* getColumnCardIssues has just returned into main for directive dirIdx
PaginatorReturned == pc = "cardLoop" /\ cardIdx = 1

PageRequests == RequestsOf(dirIdx, {"listCards"})

(* C5 as claimed: the paginator returns exactly the k issue cards and      *)
(* performs exactly ceil((k+m)/100) page requests.                         *)
C5_PageRequestsCeiling ==
  PaginatorReturned =>
    /\ Len(cards) = world.k
    /\ Cardinality(PageRequests)
         = (world.k + world.m + MAX_CARDS_PER_PAGE - 1) \div MAX_CARDS_PER_PAGE

(* C5 as amended: the paginator returns exactly the k issue cards, in the  *)
(* remote's order, and performs exactly floor((k+m)/100) + 1 page          *)
(* requests, for pages 1, 2, ... in turn: it stops at the first page with  *)
(* fewer than 100 raw cards, which is an empty page when k+m is 0 or a     *)
(* multiple of 100.                                                        *)
C5_PageRequestsUntilShortPage ==
  PaginatorReturned =>
    /\ Len(cards) = world.k
    /\ \A i \in 1..Len(cards) : Truthy(cards[i].content_url)
    /\ \A i \in 1..(Len(cards) - 1) : cards[i].id < cards[i + 1].id
    /\ Cardinality(PageRequests)
         = (world.k + world.m) \div MAX_CARDS_PER_PAGE + 1
    /\ {requests[r].page : r \in PageRequests} = 1..Cardinality(PageRequests)
    /\ \A r1, r2 \in PageRequests :
         r1 < r2 => requests[r1].page < requests[r2].page

\* the paginator returns from a column of exactly one full page
C5_Witness ==
  /\ PaginatorReturned
  /\ world.k + world.m = MAX_CARDS_PER_PAGE
  /\ world.k >= 1
  /\ Cardinality(PageRequests) = 2

-----------------------------------------------------------------------------
\* the conditions under which the claim has an entry dropped, read off the
\* entry as the configuration gives it
EntryIsObject(e) == e.t = "object"

EntryHasLabelsKey(e) == "labels" \in DOMAIN e.fields

EntryHasColumnId(e) ==
  /\ "column_id" \in DOMAIN e.fields
  /\ e.fields["column_id"].t = "string"
  /\ e.fields["column_id"].s # <<>>

EntryHasNamePair(e) ==
  \A key \in {"column_name", "project_name"} :
    /\ key \in DOMAIN e.fields
    /\ e.fields[key].t = "string"
    /\ e.fields[key].s # <<>>

EntryHasValidLabel(e) ==
  /\ e.fields["labels"].t = "array"
  /\ \E i \in 1..Len(e.fields["labels"].items) :
       /\ e.fields["labels"].items[i].t = "string"
       /\ e.fields["labels"].items[i].s # <<>>

EntryIsDropped(e) ==
  \/ ~EntryIsObject(e)
  \/ ~EntryHasLabelsKey(e)
  \/ ~(EntryHasColumnId(e) \/ EntryHasNamePair(e))
  \/ ~EntryHasValidLabel(e)

\* the entries that validation's own tests let through
SurvivingEntries ==
  {i \in 1..Len(config.value.items) : ~EntryIsDropped(config.value.items[i])}

\* a valid column_id as the configuration is documented: a positive
\* integer, written as a number or as the digits of one
EntryHasDocumentedColumnId(e) ==
  /\ "column_id" \in DOMAIN e.fields
  /\ \/ /\ e.fields["column_id"].t = "number"
        /\ e.fields["column_id"].n > 0
     \/ /\ e.fields["column_id"].t = "string"
        /\ ~parseInt(e.fields["column_id"].s).nan
        /\ parseInt(e.fields["column_id"].s).n > 0

\* the four defects for which an entry is to be dropped
EntryIsDefective(e) ==
  \/ ~EntryIsObject(e)
  \/ ~EntryHasLabelsKey(e)
  \/ ~(EntryHasDocumentedColumnId(e) \/ EntryHasNamePair(e))
  \/ ~EntryHasValidLabel(e)

ValidEntries ==
  {i \in 1..Len(config.value.items) : ~EntryIsDefective(config.value.items[i])}

(* C6: validateColumnsLabels throws exactly when the payload is not        *)
(* parsable, is not an array, or holds no valid entry; otherwise the       *)
(* directives it returns come from exactly the entries that are objects,   *)
(* have a labels key, have a valid column_id (a positive integer) or a     *)
(* valid name pair, and keep a label: each entry is kept or dropped on its *)
(* own account. Violated: an entry whose column_id is the integer 42 is    *)
(* dropped, and one whose column_id is "abc" is kept.                      *)
C6_FatalExactlyWhenNothingValid ==
  pc \notin {"start", "labelCards"} =>
    /\ ConfigurationRejected <=>
         \/ ~config.parses
         \/ config.value.t # "array"
         \/ ValidEntries = {}
    /\ ~ConfigurationRejected =>
         /\ {validColumnsLabels.from[j] : j \in 1..Len(Directives)}
              = ValidEntries
         /\ Len(Directives) = Cardinality(ValidEntries)

(* C7: every directive that validation returns has a usable column         *)
(* identification (a column_id that getColumnCardIssues accepts, or a      *)
(* non-empty column_name and project_name) and a non-empty list of         *)
(* non-empty lower-case string labels, and the directives are in input     *)
(* order.                                                                  *)
C7_DirectivesUsable ==
  dirIdx > 0 =>
    /\ \A j \in 1..Len(Directives) :
         LET d == Directives[j]
             labels == Get(d, "labels")
         IN /\ \/ /\ HasKey(d, "column_id")
                  /\ checkColumnId(Get(d, "column_id")).err = "none"
               \/ /\ isNonEmptyString(Get(d, "column_name"))
                  /\ isNonEmptyString(Get(d, "project_name"))
            /\ labels.t = "array"
            /\ Len(labels.items) >= 1
            /\ \A i \in 1..Len(labels.items) :
                 /\ isNonEmptyString(labels.items[i])
                 /\ \A c \in 1..Len(labels.items[i].s) :
                      IndexIn(UpperChars, labels.items[i].s[c]) = 0
    /\ \A j \in 1..(Len(Directives) - 1) :
         validColumnsLabels.from[j] < validColumnsLabels.from[j + 1]

(* C8: an entry with an integer column_id and a (column_name,              *)
(* project_name) pair yields a directive that keeps column_id and has      *)
(* neither column_name nor project_name.                                   *)
C8_IntegerColumnIdTakesPrecedence ==
  dirIdx > 0 =>
    \A j \in 1..Len(Directives) :
      ( /\ HasKey(EntryOf(j), "column_id")
        /\ Get(EntryOf(j), "column_id").t = "number"
        /\ EntryHasNamePair(EntryOf(j)) )
      => /\ HasKey(Directives[j], "column_id")
         /\ ~HasKey(Directives[j], "column_name")
         /\ ~HasKey(Directives[j], "project_name")

-----------------------------------------------------------------------------
\* directive j has been taken up by the loop of main and left again
Processed(j) == dirIdx > j \/ (dirIdx = j /\ Terminated)

(* C9: for every directive whose entry gives a non-empty column_id, main   *)
(* calls neither getProject nor getColumn and issues no project-list or    *)
(* column-list request, and what it passes to getColumnCardIssues is the   *)
(* column_id of the configuration, unchanged.                              *)
C9_ColumnIdBypassesResolver ==
  dirIdx > 0 =>
    \A j \in 1..Len(Directives) :
      EntryHasColumnId(EntryOf(j)) =>
        /\ CallsOf(j, {"getProject", "getColumn"}) = {}
        /\ RequestsOf(j, {"listProjects", "listColumns"}) = {}
        /\ \A c \in CallsOf(j, {"getColumnCardIssues"}) :
             calls[c].arg = EntryOf(j).fields["column_id"]
        /\ Processed(j) => Cardinality(CallsOf(j, {"getColumnCardIssues"})) = 1

\* a directive given by column_id and names has reached the paginator, in a
\* run where another directive went through the resolver
C9_Witness ==
  /\ dirIdx > 0
  /\ \E j \in 1..Len(Directives) :
       /\ EntryHasColumnId(EntryOf(j))
       /\ EntryHasNamePair(EntryOf(j))
       /\ Processed(j)
       /\ RequestsOf(j, {"listCards"}) # {}
  /\ \E c \in 1..Len(calls) : calls[c].fn = "getColumn"

\* directive j is name-based and its project_name is no project's name
ProjectMiss(j) ==
  /\ ~HasKey(Directives[j], "column_id")
  /\ \A p \in 1..Len(RepoProjects) :
       RepoProjects[p].name # Get(Directives[j], "project_name").s

(* C10: a name-based directive whose project_name matches no project is    *)
(* given up after the project list: no column-list, card-page or label     *)
(* request is issued for it, an error is logged, the run never ends while  *)
(* main is at that directive, a completed run has gone through every       *)
(* directive, and a run of such directives only ends with exit code zero.  *)
C10_ProjectMissSkipsDirective ==
  dirIdx > 0 =>
    /\ \A j \in 1..Len(Directives) :
         ProjectMiss(j) =>
           /\ RequestsOf(j, {"listColumns", "listCards", "listLabels"}) = {}
           /\ CallsOf(j, {"getColumn", "getColumnCardIssues"}) = {}
           /\ exitCode = "nonzero" => dirIdx # j
           /\ Processed(j) =>
                /\ Cardinality(RequestsOf(j, {"listProjects"})) = 1
                /\ \E l \in 1..Len(logs) :
                     logs[l].level = "error" /\ logs[l].dir = j
    /\ pc = "done" => dirIdx = Len(Directives) + 1
    /\ (Terminated /\ \A j \in 1..Len(Directives) : ProjectMiss(j))
         => exitCode = "zero"

\* the run has completed with exit code zero after skipping a directive
\* whose project was listed and not found, and a later directive had its
\* cards fetched
C10_Witness ==
  /\ pc = "done"
  /\ exitCode = "zero"
  /\ \E j \in 1..Len(Directives) :
       /\ ProjectMiss(j)
       /\ RequestsOf(j, {"listProjects"}) \cap failed = {}
       /\ RequestsOf(j, {"listProjects"}) # {}
       /\ \E r \in 1..Len(requests) :
            requests[r].dir > j /\ requests[r].kind = "listLabels"

-----------------------------------------------------------------------------
(* C11: directives are processed strictly one after the other: every       *)
(* request in flight belongs to the directive main is at and no request of *)
(* a later directive exists yet, so no request of a later directive is     *)
(* issued while a request of an earlier one has not settled; the requests  *)
(* of a directive all precede those of the next; and nothing is in flight  *)
(* between two directives or when the run has ended.                       *)
C11_DirectivesSequential ==
  /\ \A r \in pending : requests[r].dir = dirIdx
  /\ \A r \in 1..(Len(requests) - 1) : requests[r].dir <= requests[r + 1].dir
  /\ Len(requests) >= 1 => requests[Len(requests)].dir \in 1..dirIdx
  /\ (pc = "directive" \/ Terminated) => pending = {}

\* a request of the second directive is in flight after the first directive
\* had a card page and a label read answered, and after the first directive
\* was given up on a failed request
C11_Witness ==
  /\ \E s \in pending : requests[s].dir = 2
  /\ \/ /\ RequestsOf(1, {"listLabels"}) # {}
        /\ RequestsOf(1, {"listCards"}) # {}
     \/ /\ RequestsOf(1, {"listCards"}) \cap failed # {}
        /\ \E l \in 1..Len(logs) : logs[l].tag = "cards_failed" /\ logs[l].dir = 1

-----------------------------------------------------------------------------
\* the cards of the batch labelCards was given (an array), and the
\* labelCardIssue calls it has made so far, in the order it made them
LCBatch == lc.cardData.items

LCDispatching == lc.phase \in {"pending", "resolved"} /\ Len(lc.promise) >= 1

(* C12: once labelCards has accepted a batch of n >= 1 cards, its          *)
(* labelCardIssue calls are, in the order made, the calls for cards 1, 2,  *)
(* ... of the batch: one per card, in input order, none twice and none     *)
(* beyond the n-th; the timer stays armed until the n-th call whatever     *)
(* calls have failed, and when it is cleared, exactly n calls were made.   *)
C12_OneCallPerCardInOrder ==
  LCDispatching =>
    /\ Len(calls) <= Len(LCBatch)
    /\ Len(calls) = lc.requestSentCount
    /\ \A c \in 1..Len(calls) :
         /\ calls[c].fn = "labelCardIssue"
         /\ calls[c].arg = Num(LCBatch[c].id)
    /\ \A c \in 1..Len(LCBatch) : (lc.promise[c] # "unsent") <=> c <= Len(calls)
    /\ Len(calls) < Len(LCBatch) => lc.interval /\ lc.phase = "pending"
    /\ ~lc.interval => Len(calls) = Len(LCBatch)

\* all three calls of a batch of three have been made although the first
\* failed at once and a label request of a later one was refused
C12_Witness ==
  /\ LCDispatching
  /\ Len(LCBatch) = 3
  /\ Len(calls) = 3
  /\ lc.outcome[1] \in {"Error", "ReferenceError"}
  /\ \E i \in 2..3 : lc.sentAt[i] \in failed

-----------------------------------------------------------------------------
\* a card whose issue reference ends in /issues/<digits>
GoodCard(card) ==
  /\ Truthy(card.content_url)
  /\ matchIssueNumber(card.content_url.s).matched

IssueRefOf(card) == matchIssueNumber(card.content_url.s).capture

\* the cards main's loop has taken up so far for the directive it is at
CardsTakenUp ==
  SubSeq(cards, 1, IF pc = "awaitLabels" THEN cardIdx ELSE cardIdx - 1)

\* the label reads issued for the directive main is at, in order
LabelReads ==
  LET OfDirective(r) == r.dir = dirIdx /\ r.kind = "listLabels"
  IN SelectSeq(requests, OfDirective)

\* the warnings of main for the directive it is at
CardWarnings ==
  {l \in 1..Len(logs) :
     /\ logs[l].level = "warn"
     /\ logs[l].tag = "no_issue_number"
     /\ logs[l].dir = dirIdx}

\* the cards labelCards has called labelCardIssue for
LCCardsTakenUp == SubSeq(LCBatch, 1, lc.requestSentCount)

\* the cards of the batch whose promise chain has run its catch
LCWarned ==
  {i \in DOMAIN lc.promise :
     \E l \in 1..Len(logs) :
       /\ logs[l].level = "warn"
       /\ logs[l].tag = "label_failed"
       /\ logs[l].dir = LCBatch[i].id}

(* C13: a card whose issue reference does not end in /issues/<digits>, or  *)
(* that has none, gets no remote request and a warning, and the requests   *)
(* issued for a batch are exactly those of the batch without such cards,   *)
(* in the same order: in the loop of main over the cards of a column, and  *)
(* in labelCards, whose result is the count it gives for the other cards.  *)
C13_BadCardSkippedOthersUnaffected ==
  /\ pc \in {"cardLoop", "awaitLabels"} =>
       LET others == SelectSeq(CardsTakenUp, GoodCard)
       IN /\ Len(LabelReads) = Len(others)
          /\ \A i \in 1..Len(others) :
               LabelReads[i].arg = parseInt(IssueRefOf(others[i])).n
          /\ Cardinality(CardWarnings) = Len(CardsTakenUp) - Len(others)
  /\ LCDispatching =>
       LET others == SelectSeq(LCCardsTakenUp, GoodCard)
       IN /\ Len(requests) = Len(others)
          /\ \A i \in 1..Len(others) :
               /\ requests[i].kind = "addLabels"
               /\ requests[i].arg = Str(IssueRefOf(others[i]))
          /\ \A i \in 1..Len(LCCardsTakenUp) :
               ~GoodCard(LCBatch[i]) =>
                 /\ lc.sentAt[i] = 0
                 /\ lc.promise[i] \in {"finally", "settled"} => i \in LCWarned
          /\ lc.phase = "resolved" =>
               lc.value = Len(SelectSeq(LCBatch, GoodCard)) - Cardinality(failed)

\* main has warned about a card ending in /issues/abc and then read the
\* labels of two later cards of the column
C13_Witness ==
  /\ pc = "cardLoop"
  /\ world.bad
  /\ cardIdx = 4
  /\ ~GoodCard(cards[1])
  /\ Len(LabelReads) = 2
  /\ Cardinality(CardWarnings) = 1

\* labelCards has resolved with 2 for a batch of three whose second card
\* ends in /issues/abc
C13_WitnessLabelCards ==
  /\ lc.phase = "resolved"
  /\ Len(LCBatch) = 3
  /\ lc.value = 2
  /\ Truthy(LCBatch[2].content_url) /\ ~GoodCard(LCBatch[2])
  /\ 2 \in LCWarned

-----------------------------------------------------------------------------
\* labelCards has run up to its return (or its throw)
LCReturned == lc.phase \notin {"idle", "called"}

(* C14: labelCards validates both inputs: whenever cardData is not an      *)
(* array or labels is not an array, the promise it returns is rejected     *)
(* with a TypeError and no labelCardIssue call is made; an empty array of  *)
(* cards, with an array of labels, resolves with 0 and no call is made.    *)
C14_BothInputsValidated ==
  LCReturned =>
    /\ (lc.cardData.t # "array" \/ lc.labels.t # "array") =>
         /\ lc.phase = "rejected"
         /\ lc.error = "TypeError"
         /\ calls = <<>>
         /\ requests = <<>>
    /\ (lc.cardData.t = "array" /\ lc.labels.t = "array"
          /\ Len(lc.cardData.items) = 0) =>
         /\ lc.phase = "resolved"
         /\ lc.value = 0
         /\ calls = <<>>
         /\ requests = <<>>

-----------------------------------------------------------------------------
\* the configuration as the claim has it fatally invalid: unparsable, not
\* an array, or with no entry that survives
ConfigFatallyInvalid ==
  \/ ~config.parses
  \/ config.value.t # "array"
  \/ \A i \in 1..Len(config.value.items) :
       EntryIsDropped(config.value.items[i])

(* C15: the configuration is validated once, before any remote call: no    *)
(* request is issued before validation; a fatally invalid configuration    *)
(* (unparsable, not an array, no valid directive) ends the process with a  *)
(* non-zero exit code at the validation, and no request of any kind is     *)
(* ever issued in that run; otherwise main works through a non-empty list  *)
(* of directives, which at the end of the run is still the list that       *)
(* validation returns for the configuration.                               *)
C15_FatalConfigurationBeforeAnyRequest ==
  /\ pc = "start" => requests = <<>> /\ calls = <<>>
  /\ IF ConfigFatallyInvalid
     THEN /\ requests = <<>>
          /\ calls = <<>>
          /\ pending = {}
          /\ pc \in {"start", "exited"}
          /\ pc = "exited" => exitCode = "nonzero" /\ dirIdx = 0
     ELSE pc # "start" =>
            /\ Len(Directives) >= 1
            /\ dirIdx \in 1..(Len(Directives) + 1)
  /\ pc = "done" =>
       LET v == validateColumnsLabels(config)
       IN /\ v.err = "none"
          /\ validColumnsLabels = [val |-> v.val, from |-> v.from]

\* the process has exited with a non-zero code on an array of two entries
\* neither of which is a valid directive
C15_Witness ==
  /\ pc = "exited"
  /\ exitCode = "nonzero"
  /\ config.parses
  /\ config.value.t = "array"
  /\ Len(config.value.items) = 2
  /\ SurvivingEntries = {}
  /\ requests = <<>>

-----------------------------------------------------------------------------
\* main is suspended at one of its awaits
AtAwait == pc \in {"awaitProject", "awaitColumn", "awaitCardPage", "awaitLabels"}

\* the number of the issue that the card at position i of cards refers to
IssueNumberAt(i) == parseInt(IssueRefOf(cards[i])).n

(* C16: in main as it runs, at most one remote request is in flight at any *)
(* time: only the request issued last can be unsettled, and it is exactly  *)
(* while main is suspended at the await of that request; the label reads   *)
(* of a column are issued in the order of its cards, the one in flight     *)
(* being that of the card the loop is at.                                  *)
C16_OneRequestInFlight ==
  /\ Cardinality(pending) <= 1
  /\ pending \subseteq {Len(requests)}
  /\ pending # {} <=> AtAwait
  /\ \A r \in 1..Len(requests) :
       requests[r].kind \in {"listProjects", "listColumns", "listCards",
                             "listLabels"}
  /\ pc = "awaitLabels" =>
       /\ requests[Len(requests)].kind = "listLabels"
       /\ requests[Len(requests)].arg = IssueNumberAt(cardIdx)
  /\ pc \in {"cardLoop", "awaitLabels"} =>
       LET reads == LabelReads
           taken == Len(CardsTakenUp)
       IN \A a \in 1..(Len(reads) - 1) :
            \E i, j \in 1..taken :
              /\ i < j
              /\ GoodCard(cards[i]) /\ IssueNumberAt(i) = reads[a].arg
              /\ GoodCard(cards[j]) /\ IssueNumberAt(j) = reads[a + 1].arg

\* the third label read of a column found by its names is in flight, alone,
\* after the project list, the column list and the card page were answered
C16_Witness ==
  /\ pc = "awaitLabels"
  /\ pending = {Len(requests)}
  /\ Len(LabelReads) = 3
  /\ RequestsOf(dirIdx, {"listProjects"}) # {}
  /\ RequestsOf(dirIdx, {"listColumns"}) # {}
  /\ RequestsOf(dirIdx, {"listCards"}) # {}

====
